---- MODULE Spec2Model ----
(***************************************************************************)
(* Native array slicing / broadcasting (numbapro/array_slicing.py) and the *)
(* boxed-value bridge (numba/pythonapi.py), modelled as state machines.    *)
(*                                                                         *)
(* Nine specifications share the module:                                   *)
(*   Spec           one call of slice / index / newaxis on a source view   *)
(*   SpecBroadcast  visit_BroadcastNode: broadcast over a list of operands *)
(*   SpecBridge     to_native_value on a boxed object, then its cleanup    *)
(*   SpecRound      from_native_value and to_native_value, one after the   *)
(*                  other, on one semantic type                            *)
(*   SpecSerialize  PythonAPI constructions and serialize_object calls on  *)
(*                  one module                                             *)
(*   SpecRefs       the references to_native_value creates and releases    *)
(*   SpecCharSeq    from_native_charseq on a fixed-length byte sequence    *)
(*   SpecRewrite    rewrite_slice and the visit of its NativeSliceNode     *)
(*   SpecGil        the interpreter lock operations of one thread          *)
(* Each specification keeps the variables of the others at their idle      *)
(* values.                                                                 *)
(***************************************************************************)
EXTENDS Integers, Sequences, FiniteSets, TLC

VARIABLES
    \* ---- array view & slicing engine ----
    fn,           \* the native function that was called: "none" before the call
    in_shape,     \* view_accessor.shape   (source array, indexed by axis)
    in_strides,   \* view_accessor.strides (source array, indexed by axis)
    out_shape,    \* view_copy_accessor.shape   (stack allocated)
    out_strides,  \* view_copy_accessor.strides (stack allocated)
    data,         \* view_copy_accessor.data (an address)
    call,         \* arguments and locals of the call, see NoCall
    \* ---- broadcasting ----
    dst_shape,    \* the destination shape of visit_BroadcastNode
    operands,     \* sequence of operands: [is_array, ndim, shape, strides]
    retvals,      \* broadcast_retvals per operand: NotCalled, 0 or 1
    opi,          \* number of operands visit_BroadcastNode has visited
    bph,          \* where visit_BroadcastNode is: "alloc", "loop", "check", "done"
    blocals,      \* per operand, the locals of broadcast at its return
    exc,          \* the exception raised by the check_errors nodes
    \* ---- boxed-value bridge ----
    bpc,          \* "start", "converted", "cleaned", "cleaned2"; "idle" when unused
    bobj,         \* the boxed object handed to to_native_value
    btyp,         \* the semantic type handed to to_native_value
    bres,         \* the NativeValue: [value, is_error, cleanup]
    btrace,       \* conversions and cleanups executed so far, in order
    perr,         \* the runtime's error indicator: an error is pending
    bufs,         \* number of buffer views acquired and not released
    held,         \* per cleanup act, whether its Py_buffer holds a view
    \* ---- boxed-value bridge: round trips ----
    rpc,          \* "start", "half", "done", "raised_from", "raised_to"; "idle"
    rdir,         \* "nbn": from_native then to_native; "bnb": the other order
    rtyp,         \* the semantic type of both conversions
    rpy2,         \* PYVERSION < (3, 0)
    rin,          \* the input: a native value ("nbn") or a boxed object ("bnb")
    robj,         \* the boxed object from_native_value returned
    rnat,         \* the NativeValue to_native_value returned
    rret,         \* the reference from_native_value returned: [origin, incref]
    \* ---- serialization cache of a module ----
    has_serialized,  \* the module has the attribute __serialized
    serialized,      \* module.__serialized: per key the constant, or NoConst
    consts,          \* the constants of the module, in order of insertion
    napi,            \* number of PythonAPI objects constructed on the module
    ncall,           \* number of serialize_object calls made
    first_ser,       \* per object, its first serialization: [gv, api]
    last,            \* the last serialize_object call, see NoSerCall
    \* ---- reference counts of to_native, character sequences, subscript
    \* ---- rewriting, interpreter lock: one record each, [pc |-> "idle"]
    \* ---- when unused
    refs,            \* to_native on reference-counted objects, see InitRefs
    chseq,           \* from_native_charseq, see InitCharSeq
    rw,              \* rewrite_slice and visit_NativeSliceNode, see InitRewrite
    gil              \* the interpreter lock of one thread, see InitGil

viewVars == <<fn, in_shape, in_strides, out_shape, out_strides, data, call>>
bcastVars == <<dst_shape, operands, retvals, opi, bph, blocals, exc>>
bridgeVars == <<bpc, bobj, btyp, bres, btrace, perr, bufs, held>>
roundVars == <<rpc, rdir, rtyp, rpy2, rin, robj, rnat, rret>>
serVars == <<has_serialized, serialized, consts, napi, ncall, first_ser, last>>
lateVars == <<refs, chseq, rw, gil>>
vars == <<viewVars, bcastVars, bridgeVars, roundVars, serVars, lateVars>>

(***************************************************************************)
(* Bounds of the model.                                                    *)
(***************************************************************************)
MaxExtent == 2    \* extents of the source view are 0..MaxExtent
MaxIdx == 3       \* given start / stop values are -MaxIdx..MaxIdx
MaxStep == 2      \* given step values are -MaxStep..MaxStep without 0
MaxTuple == 3     \* tuple types have 0..MaxTuple element types
LongLongBits == 5 \* width of C long long, scaled down (64 in the build)
LongBits == 3     \* width of C long, scaled down (32 or 64 in the build)
MaxApis == 2      \* at most MaxApis PythonAPI objects are constructed
MaxCalls == 4     \* at most MaxCalls serialize_object calls are made

Axes == {0, 1}                  \* the source view has two axes
StrideVals == {-1, 2}       \* byte strides of the source view
GarbageVals == {-7, 7}             \* content of freshly allocated shape/strides
DataVals == {100}         \* base address of the source view
ExtentVals == 0..MaxExtent
IdxVals == (-MaxIdx)..MaxIdx
StepVals == ((-MaxStep)..MaxStep) \ {0}

Abs(x) == IF x < 0 THEN -x ELSE x

\* '/' of two signed npy_intp values: the quotient rounded towards zero
SDiv(x, y) ==
    IF (x >= 0) = (y > 0) THEN Abs(x) \div Abs(y) ELSE -(Abs(x) \div Abs(y))

\* '%' of two signed npy_intp values: the remainder has the sign of x
SRem(x, y) == x - y * SDiv(x, y)

(***************************************************************************)
(* SliceArray                                                              *)
(***************************************************************************)
AdjustGivenIndexMut(extent, negative_step, index, is_start) ==
    IF index < 0
    THEN IF index + extent < 0 THEN 0 ELSE index + extent
    ELSE IF index > extent
         THEN IF is_start
              THEN IF negative_step THEN extent - 1 ELSE extent
              ELSE extent
         ELSE index

AdjustGivenIndex(extent, negative_step, index, is_start) ==
    IF index < 0
    THEN IF index + extent < 0 THEN 0 ELSE index + extent
    ELSE IF index >= extent
         THEN IF is_start
              THEN IF negative_step THEN extent - 1 ELSE extent
              ELSE extent
         ELSE index

SetDefaultIndexMut(default1, default2, negative_step) ==
    IF negative_step THEN default2 ELSE default1

SetDefaultIndex(default1, default2, negative_step) ==
    IF negative_step THEN default1 ELSE default2

adjust_index(extent, negative_step, index, default1, default2, is_start, have_index) ==
    IF have_index
    THEN AdjustGivenIndex(extent, negative_step, index, is_start)
    ELSE SetDefaultIndex(default1, default2, negative_step)

\* the stride variable after 'if new_extent == 1: stride.assign(zero)'
SliceStrideMut(stride, new_extent) == stride
SliceStride(stride, new_extent) == IF new_extent = 1 THEN 0 ELSE stride

\* new_extent: (stop - start) / step, plus one on a remainder, clamped at 0
SliceExtent(start, stop, step) ==
    LET q == SDiv(stop - start, step)
        e == IF SRem(stop - start, step) # 0 THEN q + 1 ELSE q
    IN  IF e < 0 THEN 0 ELSE e

\* The locals of SliceArray.body at its return
SliceBody(dat, shape, strides, start0, stop0, step0, src_dim, have_start, have_stop, have_step) ==
    LET stride0 == strides[src_dim]
        extent == shape[src_dim]
        step == IF have_step THEN step0 ELSE 1
        negative_step == step < 0
        start == adjust_index(extent, negative_step, start0,
                              extent - 1, 0, TRUE, have_start)
        stop == adjust_index(extent, negative_step, stop0,
                             -1, extent, FALSE, have_stop)
        new_extent == SliceExtent(start, stop, step)
        stride == SliceStride(stride0, new_extent)
    IN  [start |-> start, stop |-> stop, step |-> step,
         new_extent |-> new_extent, stride |-> stride,
         result |-> dat + start * stride]

NoCall ==
    [have_start |-> FALSE, have_stop |-> FALSE, have_step |-> FALSE,
     start |-> 0, stop |-> 0, step |-> 0, src_dim |-> 0, dst_dim |-> 0,
     index |-> 0, data0 |-> 0, extent0 |-> 0, stride0 |-> 0,
     nstart |-> 0, nstop |-> 0, nstep |-> 0, new_extent |-> 0, result |-> 0]


(***************************************************************************)
(* IndexAxis and NewAxis                                                   *)
(***************************************************************************)
IndexBody(dat, strides, src_dim, index) == dat + strides[src_dim] * index

NewAxisShapeMut(shape, dst_dim) == [i \in DOMAIN shape |-> 1]
NewAxisShape(shape, dst_dim) == [shape EXCEPT ![dst_dim] = 1]

NewAxisStrides(strides, dst_dim) == [strides EXCEPT ![dst_dim] = 0]

(***************************************************************************)
(* Idle values of the groups of variables                                  *)
(***************************************************************************)
NotCalled == -1
NoExc == [raised |-> FALSE, type |-> "", msg |-> "", detail |-> <<>>]

\* A native value: the payload and its kind, whether the payload is specified,
\* and the valid bit of an optional (TRUE for every other kind)
Undefined(kind) == [present |-> TRUE, kind |-> kind, v |-> 0, defined |-> FALSE]
NoCleanup == [present |-> FALSE, acts |-> <<>>]
NoResult == [value |-> Undefined("none"), is_error |-> FALSE, cleanup |-> NoCleanup]
NoObject == [kind |-> "none", val |-> 0]
NoType == [kind |-> "none", elts |-> <<>>]

IdleView ==
    /\ fn = "none"
    /\ in_shape = [i \in Axes |-> 0]
    /\ in_strides = [i \in Axes |-> 0]
    /\ out_shape = [i \in Axes |-> 0]
    /\ out_strides = [i \in Axes |-> 0]
    /\ data = 0
    /\ call = NoCall

IdleBroadcast ==
    /\ dst_shape = <<>>
    /\ operands = <<>>
    /\ retvals = <<>>
    /\ opi = 0
    /\ bph = "idle"
    /\ blocals = <<>>
    /\ exc = NoExc

IdleBridge ==
    /\ bpc = "idle"
    /\ bobj = NoObject
    /\ btyp = NoType
    /\ bres = NoResult
    /\ btrace = <<>>
    /\ perr = FALSE
    /\ bufs = 0
    /\ held = <<>>

\* the objects handed to serialize_object: id is the identity (id(obj)), key
\* the class of objects equal to it (same hash, __eq__ true)
SerObjs == {[id |-> 1, key |-> "a"], [id |-> 2, key |-> "a"], [id |-> 3, key |-> "b"]}
SerKeys == {o.key : o \in SerObjs}
SerIds == {o.id : o \in SerObjs}
NoConst == 0
\* a serialize_object call: the object, the constant returned, the number of
\* constants the call added, whether the object had been serialized before,
\* and the number of PythonAPI objects constructed before the call
NoSerCall == [id |-> 0, gv |-> NoConst, added |-> 0, again |-> FALSE, api |-> 0]
NotSerialized == [gv |-> NoConst, api |-> 0]
NoRef == [origin |-> "none", incref |-> 0]

IdleRound ==
    /\ rpc = "idle"
    /\ rdir = "nbn"
    /\ rtyp = NoType
    /\ rpy2 = FALSE
    /\ rin = NoObject
    /\ robj = NoObject
    /\ rnat = NoResult
    /\ rret = NoRef

IdleSerialize ==
    /\ has_serialized = FALSE
    /\ serialized = [k \in SerKeys |-> NoConst]
    /\ consts = <<>>
    /\ napi = 0
    /\ ncall = 0
    /\ first_ser = [i \in SerIds |-> NotSerialized]
    /\ last = NoSerCall

IdleRefs == refs = [pc |-> "idle"]
IdleCharSeq == chseq = [pc |-> "idle"]
IdleRewrite == rw = [pc |-> "idle"]
IdleGil == gil = [pc |-> "idle"]

IdleLate == IdleRefs /\ IdleCharSeq /\ IdleRewrite /\ IdleGil

(***************************************************************************)
(* Spec: one native call on a source view                                  *)
(***************************************************************************)
Init ==
    /\ IdleLate
    /\ fn = "none"
    /\ in_shape \in [Axes -> ExtentVals]
    /\ in_strides \in [Axes -> StrideVals]
    /\ \E g \in GarbageVals :
          /\ out_shape = [i \in Axes |-> g]
          /\ out_strides = [i \in Axes |-> g]
    /\ data \in DataVals
    /\ call = NoCall
    /\ IdleBroadcast
    /\ IdleBridge
    /\ IdleRound
    /\ IdleSerialize

\* visit_SliceSliceNode: the call of slice_<have_start>_<have_stop>_<have_step>
SliceCall ==
    /\ fn = "none"
    /\ \E hs \in BOOLEAN, hp \in BOOLEAN, ht \in BOOLEAN,
          src_dim \in Axes, dst_dim \in Axes :
       \E start \in (IF hs THEN IdxVals ELSE {0}),
          stop \in (IF hp THEN IdxVals ELSE {0}),
          step \in (IF ht THEN StepVals ELSE {0}) :
          LET r == SliceBody(data, in_shape, in_strides, start, stop, step,
                             src_dim, hs, hp, ht)
          IN  /\ fn' = "slice"
              /\ call' = [NoCall EXCEPT
                            !.have_start = hs, !.have_stop = hp, !.have_step = ht,
                            !.start = start, !.stop = stop, !.step = step,
                            !.src_dim = src_dim, !.dst_dim = dst_dim,
                            !.data0 = data,
                            !.extent0 = in_shape[src_dim],
                            !.stride0 = in_strides[src_dim],
                            !.nstart = r.start, !.nstop = r.stop, !.nstep = r.step,
                            !.new_extent = r.new_extent, !.result = r.result]
              \* 'stride' is the element in_strides[src_dim] itself
              /\ in_strides' = [in_strides EXCEPT ![src_dim] = r.stride]
              /\ out_shape' = [out_shape EXCEPT ![dst_dim] = r.new_extent]
              /\ out_strides' = [out_strides EXCEPT ![dst_dim] = r.stride * r.step]
              /\ data' = r.result
    /\ UNCHANGED <<in_shape, bcastVars, bridgeVars, roundVars, serVars, lateVars>>

\* visit_SliceDimNode with an integer index: the call of index
IndexCall ==
    /\ fn = "none"
    /\ \E src_dim \in Axes, index \in 0..MaxExtent :
          /\ fn' = "index"
          /\ call' = [NoCall EXCEPT !.src_dim = src_dim, !.index = index,
                                    !.data0 = data,
                                    !.extent0 = in_shape[src_dim],
                                    !.stride0 = in_strides[src_dim],
                                    !.result = IndexBody(data, in_strides, src_dim, index)]
          /\ data' = IndexBody(data, in_strides, src_dim, index)
    /\ UNCHANGED <<in_shape, in_strides, out_shape, out_strides, bcastVars, bridgeVars, roundVars, serVars, lateVars>>

\* visit_SliceDimNode with a newaxis: the call of newaxis
NewAxisCall ==
    /\ fn = "none"
    /\ \E dst_dim \in Axes :
          /\ fn' = "newaxis"
          /\ call' = [NoCall EXCEPT !.dst_dim = dst_dim, !.data0 = data]
          /\ out_shape' = NewAxisShape(out_shape, dst_dim)
          /\ out_strides' = NewAxisStrides(out_strides, dst_dim)
    /\ UNCHANGED <<in_shape, in_strides, data, bcastVars, bridgeVars, roundVars, serVars, lateVars>>

Next == SliceCall \/ IndexCall \/ NewAxisCall

Spec == Init /\ [][Next]_vars


(***************************************************************************)
(* Claims about slice, index and newaxis (checked under Spec)              *)
(***************************************************************************)
Max0(x) == IF x < 0 THEN 0 ELSE x

\* ceil(a / b) for b # 0, on the mathematical quotient
CeilDiv(a, b) == IF b > 0 THEN -((-a) \div b) ELSE -(a \div (-b))

\* the step the claim speaks of: 1 when the step is absent
GivenStep == IF call.have_step THEN call.step ELSE 1

\* C1: slice returns new_extent = max(0, ceil((stop - start) / step)) for the
\* normalized start and stop; an empty range gives 0, never a negative value.
C1_NewExtentIsCeilDiv ==
    fn = "slice" =>
        call.new_extent = Max0(CeilDiv(call.nstop - call.nstart, call.nstep))

\* C2: the data pointer slice returns is data + start * original_stride, with
\* the normalized start and the stride the source axis had on entry.
C2_DataOffset ==
    fn = "slice" => call.result = call.data0 + call.nstart * call.stride0

\* C3: start normalization: absent -> extent-1 if negative_step else 0;
\* negative -> + extent, clamped to 0; >= extent -> extent-1 if negative_step
\* else extent; otherwise unchanged. An absent step is 1.
C3_StartNormalized ==
    fn = "slice" =>
        LET neg == GivenStep < 0
            e == call.extent0
            s == call.start
        IN  /\ call.nstep = GivenStep
            /\ ~call.have_start => call.nstart = (IF neg THEN e - 1 ELSE 0)
            /\ (call.have_start /\ s < 0 /\ s + e < 0) => call.nstart = 0
            /\ (call.have_start /\ s < 0 /\ s + e >= 0) => call.nstart = s + e
            /\ (call.have_start /\ s >= e /\ s >= 0) =>
                  call.nstart = (IF neg THEN e - 1 ELSE e)
            /\ (call.have_start /\ s >= 0 /\ s < e) => call.nstart = s

C3_Witness ==
    /\ fn = "slice" /\ call.have_start
    /\ call.start < 0 /\ call.extent0 = 2 /\ call.nstart = 1
    /\ ~call.have_stop /\ call.nstep = 1 /\ call.new_extent = 1

\* C4: stop normalization: absent -> -1 if negative_step else extent;
\* negative -> + extent, clamped to 0; > extent -> extent whatever the sign of
\* the step; otherwise unchanged.
C4_StopNormalized ==
    fn = "slice" =>
        LET neg == GivenStep < 0
            e == call.extent0
            p == call.stop
        IN  /\ ~call.have_stop => call.nstop = (IF neg THEN -1 ELSE e)
            /\ (call.have_stop /\ p < 0 /\ p + e < 0) => call.nstop = 0
            /\ (call.have_stop /\ p < 0 /\ p + e >= 0) => call.nstop = p + e
            /\ (call.have_stop /\ p > e /\ p >= 0) => call.nstop = e
            /\ (call.have_stop /\ p >= 0 /\ p <= e) => call.nstop = p

C4_Witness ==
    /\ fn = "slice" /\ call.have_stop /\ call.have_step
    /\ call.step < 0 /\ call.stop > call.extent0 /\ call.extent0 > 0
    /\ call.nstop = call.extent0

\* C5: the stride written for the destination axis is 0 when new_extent = 1
\* and original_stride * step otherwise; the extent written is new_extent.
C5_WrittenStrideAndExtent ==
    fn = "slice" =>
        /\ out_shape[call.dst_dim] = call.new_extent
        /\ out_strides[call.dst_dim] =
              (IF call.new_extent = 1 THEN 0 ELSE call.stride0 * call.nstep)

C5_Witness ==
    /\ fn = "slice" /\ call.extent0 = 1 /\ call.stride0 # 0
    /\ call.have_start /\ call.start = 0 /\ call.have_stop /\ call.stop = 1
    /\ call.have_step /\ call.step = 1
    /\ call.new_extent = 1 /\ out_strides[call.dst_dim] = 0

\* C9: newaxis sets shape[axis] to 1 and strides[axis] to 0 and leaves every
\* other entry of shape and strides as it was.
C9_NewAxisFrame ==
    [][fn' = "newaxis" =>
        \A i \in Axes :
            /\ out_shape'[i] = (IF i = call'.dst_dim THEN 1 ELSE out_shape[i])
            /\ out_strides'[i] = (IF i = call'.dst_dim THEN 0 ELSE out_strides[i])]_vars

C9_Witness ==
    /\ fn = "newaxis"
    /\ out_shape[call.dst_dim] = 1 /\ out_strides[call.dst_dim] = 0
    /\ \E i \in Axes : i # call.dst_dim /\ out_shape[i] # 1 /\ out_strides[i] # 0


(***************************************************************************)
(* Broadcast                                                               *)
(***************************************************************************)
MaxOps == 3                     \* at most MaxOps operands are broadcast
NdimVals == {0, 1, 2}           \* dimensionalities of the operands
BExtentVals == {1, 3, 4}        \* extents of the operands
BStrideVals == {8}              \* strides of the operands on entry

NonArray == [is_array |-> FALSE, ndim |-> 0, shape |-> <<>>, strides |-> <<>>]

ArrayOperands ==
    UNION {[is_array : {TRUE}, ndim : {n},
            shape : [0..(n - 1) -> BExtentVals],
            strides : [0..(n - 1) -> BStrideVals]] : n \in NdimVals}

OperandVals == {NonArray} \cup ArrayOperands

SetMax(S) == IF S = {} THEN 0 ELSE CHOOSE x \in S : \A y \in S : y <= x

\* node.array_type.ndim: the dimensionality of the broadcast result
MaxNdim(ops) == SetMax({ops[k].ndim : k \in {j \in DOMAIN ops : ops[j].is_array}})

\* One iteration of the loop of Broadcast.body on axis i of the operand:
\* the destination extent and the operand's stride after it, and whether the
\* iteration returned 0 (shape mismatch).
BroadcastAxisNoAdopt(dst_extent, src_extent, stride) ==
    IF src_extent = 1
    THEN [dst |-> dst_extent, stride |-> 0, mismatch |-> FALSE]
    ELSE [dst |-> dst_extent, stride |-> stride,
          mismatch |-> dst_extent # 1 /\ src_extent # dst_extent]

BroadcastAxisZeroOnDst(dst_extent, src_extent, stride) ==
    IF dst_extent = 1
    THEN [dst |-> src_extent, stride |-> 0, mismatch |-> FALSE]
    ELSE [dst |-> dst_extent, stride |-> stride,
          mismatch |-> src_extent # 1 /\ src_extent # dst_extent]

BroadcastAxisAdoptLast(dst_extent, src_extent, stride) ==
    IF src_extent = 1
    THEN [dst |-> dst_extent, stride |-> 0, mismatch |-> FALSE]
    ELSE [dst |-> src_extent, stride |-> stride, mismatch |-> FALSE]

BroadcastAxis(dst_extent, src_extent, stride) ==
    IF src_extent = 1
    THEN [dst |-> dst_extent, stride |-> 0, mismatch |-> FALSE]
    ELSE IF dst_extent = 1
         THEN [dst |-> src_extent, stride |-> stride, mismatch |-> FALSE]
         ELSE [dst |-> dst_extent, stride |-> stride,
               mismatch |-> src_extent # dst_extent]

\* Broadcast.body from loop index i on: the arrays and the locals at return
RECURSIVE BroadcastBody(_, _, _, _, _, _)
BroadcastBody(dst, src_shape, src_strides, max_ndim, ndim, i) ==
    IF i >= ndim
    THEN [dst_shape |-> dst, src_strides |-> src_strides, ret |-> 1,
          i |-> i, src_extent |-> 0, dst_extent |-> 0]
    ELSE LET dim_offset == max_ndim - ndim
             src_extent == src_shape[i]
             dst_extent == dst[i + dim_offset]
             a == BroadcastAxis(dst_extent, src_extent, src_strides[i])
             dst2 == [dst EXCEPT ![i + dim_offset] = a.dst]
             str2 == [src_strides EXCEPT ![i] = a.stride]
         IN  IF a.mismatch
             THEN [dst_shape |-> dst2, src_strides |-> str2, ret |-> 0,
                   i |-> i, src_extent |-> src_extent, dst_extent |-> dst_extent]
             ELSE BroadcastBody(dst2, src_shape, str2, max_ndim, ndim, i + 1)

NoLocals == [i |-> 0, src_extent |-> 0, dst_extent |-> 0]

\* CheckErrorNode(return_value, 0, exc_type=ValueError, exc_msg=...) raising
ShapeMismatchError ==
    [raised |-> TRUE, type |-> "ValueError",
     msg |-> "Shape mismatch while broadcasting", detail |-> <<>>]

InitBroadcast ==
    /\ IdleLate
    /\ IdleView
    /\ IdleBridge
    /\ IdleRound
    /\ IdleSerialize
    /\ \E n \in 1..MaxOps : operands \in [1..n -> OperandVals]
    /\ dst_shape = <<>>
    /\ retvals = [k \in DOMAIN operands |-> NotCalled]
    /\ blocals = [k \in DOMAIN operands |-> NoLocals]
    /\ opi = 0
    /\ bph = "alloc"
    /\ exc = NoExc

\* visit_BroadcastNode: allocate the shape and initialise it to ones
BroadcastAlloc ==
    /\ bph = "alloc"
    /\ dst_shape' = [i \in 0..(MaxNdim(operands) - 1) |-> 1]
    /\ bph' = "loop"
    /\ UNCHANGED <<operands, retvals, blocals, opi, exc, viewVars, bridgeVars, roundVars, serVars, lateVars>>

\* visit_BroadcastNode: the next operand is an array, broadcast is called
BroadcastCall ==
    /\ bph = "loop"
    /\ opi < Len(operands)
    /\ operands[opi + 1].is_array
    /\ LET op == operands[opi + 1]
           r == BroadcastBody(dst_shape, op.shape, op.strides,
                              MaxNdim(operands), op.ndim, 0)
       IN  /\ dst_shape' = r.dst_shape
           /\ operands' = [operands EXCEPT ![opi + 1].strides = r.src_strides]
           /\ retvals' = [retvals EXCEPT ![opi + 1] = r.ret]
           /\ blocals' = [blocals EXCEPT ![opi + 1] =
                            [i |-> r.i, src_extent |-> r.src_extent,
                             dst_extent |-> r.dst_extent]]
    /\ opi' = opi + 1
    /\ bph' = IF opi + 1 = Len(operands) THEN "check" ELSE "loop"
    /\ UNCHANGED <<exc, viewVars, bridgeVars, roundVars, serVars, lateVars>>

\* visit_BroadcastNode: the next operand is no array, nothing is called
BroadcastSkip ==
    /\ bph = "loop"
    /\ opi < Len(operands)
    /\ ~operands[opi + 1].is_array
    /\ opi' = opi + 1
    /\ bph' = IF opi + 1 = Len(operands) THEN "check" ELSE "loop"
    /\ UNCHANGED <<dst_shape, operands, retvals, blocals, exc, viewVars, bridgeVars, roundVars, serVars, lateVars>>

Failed == {k \in DOMAIN retvals : retvals[k] = 0}

\* visit_BroadcastNode: visitlist(check_errors), the first bad value raises
BroadcastCheckErrors ==
    /\ bph = "check"
    /\ bph' = "done"
    /\ exc' = IF Failed = {} THEN NoExc ELSE ShapeMismatchError
    /\ UNCHANGED <<dst_shape, operands, retvals, blocals, opi, viewVars, bridgeVars, roundVars, serVars, lateVars>>

NextBroadcast ==
    BroadcastAlloc \/ BroadcastCall \/ BroadcastSkip \/ BroadcastCheckErrors

SpecBroadcast == InitBroadcast /\ [][NextBroadcast]_vars


(***************************************************************************)
(* Claims about broadcast (checked under SpecBroadcast)                    *)
(***************************************************************************)
Arr == {k \in DOMAIN operands : operands[k].is_array}

\* operand k has an axis aligned with destination axis j
Covers(k, j) == j >= MaxNdim(operands) - operands[k].ndim

\* the extent of operand k on destination axis j
ExtAt(k, j) == operands[k].shape[j - (MaxNdim(operands) - operands[k].ndim)]

\* the operand extents on destination axis j that differ from 1
Non1(j) == {ExtAt(k, j) : k \in {m \in Arr : Covers(m, j) /\ ExtAt(m, j) # 1}}

AllOk == \A k \in Arr : retvals[k] = 1

\* C6: from a destination shape of all ones, every operand reports success
\* iff on each destination axis the operand extents other than 1 are all
\* equal; then each destination extent is that common extent, or 1.
C6_BroadcastSuccessIffCompatible ==
    bph \in {"check", "done"} =>
        /\ AllOk <=> (\A j \in DOMAIN dst_shape : Cardinality(Non1(j)) <= 1)
        /\ AllOk => \A j \in DOMAIN dst_shape :
                       /\ Non1(j) = {} => dst_shape[j] = 1
                       /\ Non1(j) # {} => dst_shape[j] \in Non1(j)

C6_Witness ==
    /\ bph = "done" /\ Len(operands) = 2 /\ AllOk /\ ~exc.raised
    /\ operands[1].ndim = 2 /\ operands[2].ndim = 2
    /\ operands[1].shape[0] = 1 /\ operands[1].shape[1] = 3
    /\ operands[2].shape[0] = 4 /\ operands[2].shape[1] = 1
    /\ dst_shape[0] = 4 /\ dst_shape[1] = 3

\* C7: a successful broadcast call on one operand zeroes the stride of exactly
\* the operand axes of extent 1 and leaves its other strides and its shape.
C7_BroadcastZeroesUnitStrides ==
    [][(bph = "loop" /\ opi' = opi + 1 /\ retvals'[opi'] = 1) =>
        LET o == operands[opi']
            o2 == operands'[opi']
        IN  /\ o2.shape = o.shape
            /\ o2.ndim = o.ndim
            /\ \A i \in 0..(o.ndim - 1) :
                  o2.strides[i] = (IF o.shape[i] = 1 THEN 0 ELSE o.strides[i])]_vars

C7_Witness ==
    /\ opi >= 1 /\ retvals[1] = 1 /\ operands[1].ndim = 2
    /\ operands[1].shape[0] = 1 /\ operands[1].strides[0] = 0
    /\ operands[1].shape[1] = 3 /\ operands[1].strides[1] # 0

\* C8: the shape-mismatch error that is raised carries the index of the
\* mismatched axis and both mismatching extents.
C8_ErrorCarriesAxisAndExtents ==
    exc.raised =>
        \E k \in Failed :
            exc.detail = <<blocals[k].i, blocals[k].dst_extent, blocals[k].src_extent>>

\* the orders in which n operands can be listed
Perms(n) == {p \in [1..n -> 1..n] : \A i, j \in 1..n : p[i] = p[j] => i = j}

\* the operands as visit_BroadcastNode found them: a stride on entry is the
\* one value of BStrideVals, and broadcast only ever stores 0 over it
Entry(ops) ==
    [k \in DOMAIN ops |->
        [ops[k] EXCEPT !.strides = [i \in DOMAIN ops[k].strides |->
                                       CHOOSE st \in BStrideVals : TRUE]]]

\* the loop of visit_BroadcastNode over the operands listed in the order p,
\* from the operand at position n on: shape, operands and return values
RECURSIVE BroadcastAll(_, _, _, _, _)
BroadcastAll(dst, ops, rets, p, n) ==
    IF n > Len(ops)
    THEN [dst_shape |-> dst, operands |-> ops, retvals |-> rets]
    ELSE LET k == p[n]
             op == ops[k]
             r == BroadcastBody(dst, op.shape, op.strides, MaxNdim(ops), op.ndim, 0)
         IN  IF op.is_array
             THEN BroadcastAll(r.dst_shape, [ops EXCEPT ![k].strides = r.src_strides],
                               [rets EXCEPT ![k] = r.ret], p, n + 1)
             ELSE BroadcastAll(dst, ops, rets, p, n + 1)

\* visit_BroadcastNode on the operands ops listed in the order p
BroadcastInOrder(ops, p) ==
    BroadcastAll([i \in 0..(MaxNdim(ops) - 1) |-> 1], ops,
                 [k \in DOMAIN ops |-> NotCalled], p, 1)

\* the operand axes whose stride is zero
Zeroed(ops) ==
    UNION {{<<k, i>> : i \in {j \in DOMAIN ops[k].strides : ops[k].strides[j] = 0}} :
              k \in DOMAIN ops}

\* C26: broadcasting does not depend on the order of the operands: listed in
\* any other order, from a destination shape of all ones, the operands either
\* report a shape mismatch as they did in the order taken, or succeed with the
\* same destination shape and the same zeroed strides.
C26_BroadcastOrderIndependent ==
    bph = "done" =>
        \A p \in Perms(Len(operands)) :
            \A r \in {BroadcastInOrder(Entry(operands), p)} :
                IF Failed # {}
                THEN \E k \in DOMAIN operands : r.retvals[k] = 0
                ELSE /\ \A k \in DOMAIN operands : r.retvals[k] # 0
                     /\ r.dst_shape = dst_shape
                     /\ Zeroed(r.operands) = Zeroed(operands)

C26_Witness ==
    /\ bph = "done" /\ Len(operands) = 2 /\ Failed = {}
    /\ operands[1].ndim = 2 /\ operands[1].shape[0] = 4 /\ operands[1].shape[1] = 1
    /\ operands[2].ndim = 1 /\ operands[2].shape[0] = 3
    /\ dst_shape[0] = 4 /\ dst_shape[1] = 3
    /\ Zeroed(operands) = {<<1, 1>>}
    /\ BroadcastInOrder(Entry(operands), <<2, 1>>).dst_shape = dst_shape


(***************************************************************************)
(* Boxed-value bridge: to_native_value                                     *)
(***************************************************************************)
\* Boxed objects: the none singleton, an int, a str, a record, a buffer
ObjVals ==
    {[kind |-> "none", val |-> 0], [kind |-> "int", val |-> 5],
     [kind |-> "str", val |-> 0], [kind |-> "rec", val |-> 6],
     [kind |-> "buf", val |-> 7]}

LeafKinds == {"pyobject", "int", "record", "buffer"}
LeafTypes == {[kind |-> k, elts |-> <<>>] : k \in LeafKinds}
Optional(T) == [kind |-> "optional", elts |-> <<T>>]
TypeVals == LeafTypes \cup {Optional(T) : T \in LeafTypes}

\* Tuple / UniTuple types and the tuple objects handed to them: the caller
\* dispatches on the type of the object, so a tuple type of n element types
\* meets a tuple object of n items
Tuple(elts) == [kind |-> "tuple", elts |-> elts]
TupleObj(items) == [kind |-> "tuple", val |-> 0, items |-> items]
ElemTypes ==
    {[kind |-> k, elts |-> <<>>] : k \in {"int", "record", "buffer"}}
        \cup {Optional([kind |-> "record", elts |-> <<>>])}
ItemVals == {o \in ObjVals : o.kind \in {"none", "int", "rec", "buf"}}
TuplePairs(n) ==
    {[obj |-> TupleObj(items), typ |-> Tuple(elts)] :
        items \in [1..n -> ItemVals], elts \in [1..n -> ElemTypes]}

\* events of btrace
Converted(kind, err) == [ev |-> "convert", kind |-> kind, err |-> err]
Cleaned(kind) == [ev |-> "cleanup", kind |-> kind, err |-> FALSE]
\* the value of a child conversion is read to build the value of its parent;
\* err is the child's error flag
Used(kind, err) == [ev |-> "use", kind |-> kind, err |-> err]

\* ---- integers: bit patterns of n bits are the naturals below 2^n ----
Pow2(n) == 2^n
Signed(x, n) == IF x >= Pow2(n - 1) THEN x - Pow2(n) ELSE x   \* signed reading
Bits(x, n) == x % Pow2(n)                                     \* two's complement
SExt(x, from, to) == Bits(Signed(x, from), to)                \* builder.sext
ZExt(x, from, to) == x                                        \* builder.zext
Trunc(x, to) == x % Pow2(to)                                  \* builder.trunc

long_max == Pow2(LongBits - 1) - 1
long_min == -Pow2(LongBits - 1)

\* PyLong_AsLongLong, PyLong_AsUnsignedLongLong on the Python integer x: the
\* long long they return, and whether they raised (they return -1 then)
LongAsLongLong(x) ==
    IF -Pow2(LongLongBits - 1) <= x /\ x < Pow2(LongLongBits - 1)
    THEN [val |-> Bits(x, LongLongBits), err |-> FALSE]
    ELSE [val |-> Bits(-1, LongLongBits), err |-> TRUE]

LongAsULongLong(x) ==
    IF 0 <= x /\ x < Pow2(LongLongBits)
    THEN [val |-> x, err |-> FALSE]
    ELSE [val |-> Bits(-1, LongLongBits), err |-> TRUE]

\* to_native_int on an object number_long accepts: the value stored in 'val'
\* and whether the extraction raised
ToNativeIntUnsigned(x, bits, signed) ==
    LET ll == LongAsULongLong(x)
    IN  [v |-> Trunc(ll.val, bits), failed |-> ll.err]

ToNativeInt(x, bits, signed) ==
    LET ll == IF signed THEN LongAsLongLong(x) ELSE LongAsULongLong(x)
    IN  [v |-> Trunc(ll.val, bits), failed |-> ll.err]

\* width and signedness of an integer type; a type written without them is intp
TypeBits(typ) == IF "bits" \in DOMAIN typ THEN typ.bits ELSE LongLongBits
TypeSigned(typ) == IF "signed" \in DOMAIN typ THEN typ.signed ELSE TRUE

\* the runtime call of a leaf conversion succeeds on these objects
\* (number_long, extract_record_data, get_buffer)
Convertible(obj, kind) ==
    CASE kind = "pyobject" -> TRUE
      [] kind = "int" -> obj.kind = "int"
      [] kind = "record" -> obj.kind = "rec"
      [] kind = "buffer" -> obj.kind = "buf"

\* the cleanup closure of a leaf conversion: release_buffer(buf), or None
LeafCleanupRecordOnly(kind, run, acquired) ==
    IF kind = "record"
    THEN [present |-> TRUE,
          acts |-> <<[enabled |-> run, kind |-> kind, acquired |-> acquired]>>]
    ELSE NoCleanup

LeafCleanup(kind, run, acquired) ==
    IF kind \in {"record", "buffer"}
    THEN [present |-> TRUE,
          acts |-> <<[enabled |-> run, kind |-> kind, acquired |-> acquired]>>]
    ELSE NoCleanup

\* to_native_value for the kinds without element types. 'run' tells whether
\* control reaches the emitted code; 'pending' is the error indicator on entry.
ToNativeLeaf(obj, typ, run, pending) ==
    LET ok == Convertible(obj, typ.kind)
        isint == ok /\ typ.kind = "int"
        ni == IF isint
              THEN ToNativeInt(obj.val, TypeBits(typ), TypeSigned(typ))
              ELSE [v |-> obj.val, failed |-> FALSE]
        pending2 == pending \/ ~ok \/ ni.failed
        err == CASE typ.kind = "pyobject" -> FALSE
                 [] typ.kind = "int" -> pending2           \* c_api_error()
                 [] OTHER -> ~ok                           \* null ptr / res # 0
    IN  IF run
        THEN [value |-> IF ok THEN [present |-> TRUE, kind |-> typ.kind,
                                    v |-> ni.v, defined |-> TRUE]
                        ELSE Undefined(typ.kind),
              is_error |-> err,
              cleanup |-> LeafCleanup(typ.kind, TRUE, ok),
              trace |-> <<Converted(typ.kind, err)>>,
              perr |-> pending2,
              acquired |-> IF ok /\ typ.kind \in {"record", "buffer"} THEN 1 ELSE 0]
        ELSE [value |-> Undefined(typ.kind),
              is_error |-> FALSE,
              cleanup |-> LeafCleanup(typ.kind, FALSE, FALSE),
              trace |-> <<>>,
              perr |-> pending,
              acquired |-> 0]

\* to_native_optional: the cleanup wrapper 'ifthen(is_not_none): native.cleanup()'
OptionalCleanupUnguarded(is_not_none, inner) ==
    [present |-> inner.present,
     acts |-> [i \in DOMAIN inner.acts |-> [inner.acts[i] EXCEPT !.enabled = TRUE]]]

OptionalCleanup(is_not_none, inner) ==
    [present |-> inner.present,
     acts |-> [i \in DOMAIN inner.acts |->
                 [inner.acts[i] EXCEPT !.enabled = @ /\ is_not_none]]]

\* to_native_optional: the value loaded from retptr
OptionalValue(is_not_none, inner, kind) ==
    IF is_not_none
    THEN [inner EXCEPT !.present = TRUE]                \* make_optional_value
    ELSE [present |-> FALSE, kind |-> kind, v |-> 0, defined |-> TRUE]

\* to_native_optional: the flag loaded from errptr
OptionalError(is_not_none, inner_error) == is_not_none /\ inner_error

\* to_native_tuple: the flag after the loop, from the elements' flags
TupleErrorLast(flags) == Len(flags) > 0 /\ flags[Len(flags)]

TupleError(flags) == \E i \in DOMAIN flags : flags[i]     \* or_(is_error, ...)

\* the acts of the cleanups that are present, last cleanup first
RECURSIVE ReversedActs(_, _)
ReversedActs(cleanups, i) ==
    IF i = 0
    THEN <<>>
    ELSE (IF cleanups[i].present THEN cleanups[i].acts ELSE <<>>)
             \o ReversedActs(cleanups, i - 1)

RECURSIVE ForwardActs(_, _)
ForwardActs(cleanups, i) ==
    IF i > Len(cleanups)
    THEN <<>>
    ELSE (IF cleanups[i].present THEN cleanups[i].acts ELSE <<>>)
             \o ForwardActs(cleanups, i + 1)

\* to_native_tuple: the combined cleanup of the elements' cleanups, or None
TupleCleanupForward(cleanups) ==
    IF \E i \in DOMAIN cleanups : cleanups[i].present
    THEN [present |-> TRUE, acts |-> ForwardActs(cleanups, 1)]
    ELSE NoCleanup

TupleCleanup(cleanups) ==
    IF \E i \in DOMAIN cleanups : cleanups[i].present
    THEN [present |-> TRUE, acts |-> ReversedActs(cleanups, Len(cleanups))]
    ELSE NoCleanup

\* to_native_tuple: pack_array / make_anonymous_struct over 'values'
TupleValue(values) ==
    [present |-> TRUE, kind |-> "tuple", v |-> 0,
     defined |-> \A i \in DOMAIN values : values[i].defined]

RECURSIVE ToNativeValue(_, _, _, _)
RECURSIVE ToNativeElems(_, _, _, _, _)

RECURSIVE ToNativeElemsErrClear(_, _, _, _, _)
ToNativeElemsErrClear(obj, typ, run, pending, i) ==
    IF i > Len(typ.elts)
    THEN <<>>
    ELSE LET native == ToNativeValue(obj.items[i], typ.elts[i], run, FALSE)
         IN  <<native>> \o ToNativeElemsErrClear(obj, typ, run, pending, i + 1)

\* to_native_tuple: the NativeValues of elements i.. in order; the error
\* indicator an element leaves is the one the next element starts with
ToNativeElems(obj, typ, run, pending, i) ==
    IF i > Len(typ.elts)
    THEN <<>>
    ELSE LET native == ToNativeValue(obj.items[i], typ.elts[i], run, pending)
         IN  <<native>> \o ToNativeElems(obj, typ, run, native.perr, i + 1)

RECURSIVE ElemTraces(_, _)
ElemTraces(natives, i) ==
    IF i > Len(natives) THEN <<>> ELSE natives[i].trace \o ElemTraces(natives, i + 1)

RECURSIVE ElemAcquired(_, _)
ElemAcquired(natives, i) ==
    IF i > Len(natives) THEN 0 ELSE natives[i].acquired + ElemAcquired(natives, i + 1)

ToNativeTuple(obj, typ, run, pending) ==
    LET natives == ToNativeElems(obj, typ, run, pending, 1)
        n == Len(natives)
    IN  [value |-> IF run
                   THEN TupleValue([i \in 1..n |-> natives[i].value])
                   ELSE Undefined("tuple"),
         is_error |-> TupleError([i \in 1..n |-> natives[i].is_error]),
         cleanup |-> TupleCleanup([i \in 1..n |-> natives[i].cleanup]),
         trace |-> ElemTraces(natives, 1)
                     \o (IF run
                         THEN [i \in 1..n |->
                                 Used(typ.elts[i].kind, natives[i].is_error)]
                         ELSE <<>>),
         perr |-> IF n = 0 THEN pending ELSE natives[n].perr,
         acquired |-> ElemAcquired(natives, 1)]

ToNativeValue(obj, typ, run, pending) ==
    IF typ.kind = "optional"
    THEN LET is_not_none == obj.kind # "none"             \* obj != borrow_none()
             native == ToNativeValue(obj, typ.elts[1], run /\ is_not_none, pending)
         IN  [value |-> IF run
                        THEN OptionalValue(is_not_none, native.value, typ.elts[1].kind)
                        ELSE Undefined(typ.elts[1].kind),
              is_error |-> run /\ OptionalError(is_not_none, native.is_error),
              cleanup |-> OptionalCleanup(is_not_none, native.cleanup),
              trace |-> native.trace
                          \o (IF run /\ is_not_none        \* make_optional_value
                              THEN <<Used(typ.elts[1].kind, native.is_error)>>
                              ELSE <<>>),
              perr |-> native.perr,
              acquired |-> native.acquired]
    ELSE IF typ.kind = "tuple"
    THEN ToNativeTuple(obj, typ, run, pending)
    ELSE ToNativeLeaf(obj, typ, run, pending)

InitBridge ==
    /\ IdleLate
    /\ IdleView
    /\ IdleBroadcast
    /\ IdleRound
    /\ IdleSerialize
    /\ bpc = "start"
    /\ \/ bobj \in ObjVals /\ btyp \in TypeVals
       \/ \E n \in 0..MaxTuple : \E p \in TuplePairs(n) : bobj = p.obj /\ btyp = p.typ
    /\ bres = NoResult
    /\ btrace = <<>>
    /\ perr \in BOOLEAN
    /\ bufs = 0
    /\ held = <<>>

\* the caller converts bobj to btyp
ToNativeCall ==
    /\ bpc = "start"
    /\ LET r == ToNativeValue(bobj, btyp, TRUE, perr)
       IN  /\ bres' = [value |-> r.value, is_error |-> r.is_error,
                       cleanup |-> r.cleanup]
           /\ btrace' = btrace \o r.trace
           /\ perr' = r.perr
           /\ bufs' = bufs + r.acquired
           /\ held' = [i \in DOMAIN r.cleanup.acts |-> r.cleanup.acts[i].acquired]
    /\ bpc' = "converted"
    /\ UNCHANGED <<bobj, btyp, viewVars, bcastVars, roundVars, serVars, lateVars>>

\* numba_release_buffer on a Py_buffer: a buffer that holds a view gives it
\* back and holds none afterwards; a buffer that holds none is left alone
ReleaseBufferUnguarded(h) == [held |-> FALSE, released |-> 1]

ReleaseBuffer(h) == [held |-> FALSE, released |-> IF h THEN 1 ELSE 0]

\* the events and the released views of running the acts of a cleanup
RECURSIVE RunActs(_, _, _)
RunActs(acts, hld, i) ==
    IF i > Len(acts)
    THEN [trace |-> <<>>, released |-> 0, held |-> hld]
    ELSE IF acts[i].enabled
    THEN LET rel == ReleaseBuffer(hld[i])
             rest == RunActs(acts, [hld EXCEPT ![i] = rel.held], i + 1)
         IN  [trace |-> <<Cleaned(acts[i].kind)>> \o rest.trace,
              released |-> rel.released + rest.released,
              held |-> rest.held]
    ELSE RunActs(acts, hld, i + 1)

\* the caller runs the cleanup of the NativeValue, if it has one
CleanupCall ==
    /\ bpc = "converted"
    /\ bres.cleanup.present
    /\ LET r == RunActs(bres.cleanup.acts, held, 1)
       IN  /\ btrace' = btrace \o r.trace
           /\ bufs' = bufs - r.released
           /\ held' = r.held
    /\ bpc' = "cleaned"
    /\ UNCHANGED <<bobj, btyp, bres, perr, viewVars, bcastVars, roundVars, serVars, lateVars>>

\* the NativeValue has no cleanup: the caller has nothing to run
CleanupNone ==
    /\ bpc = "converted"
    /\ ~bres.cleanup.present
    /\ bpc' = "cleaned"
    /\ UNCHANGED <<bobj, btyp, bres, btrace, perr, bufs, held, viewVars, bcastVars, roundVars, serVars, lateVars>>

\* the cleanup closure is invoked a second time
CleanupAgain ==
    /\ bpc = "cleaned"
    /\ bres.cleanup.present
    /\ LET r == RunActs(bres.cleanup.acts, held, 1)
       IN  /\ btrace' = btrace \o r.trace
           /\ bufs' = bufs - r.released
           /\ held' = r.held
    /\ bpc' = "cleaned2"
    /\ UNCHANGED <<bobj, btyp, bres, perr, viewVars, bcastVars, roundVars, serVars, lateVars>>

NextBridge == ToNativeCall \/ CleanupCall \/ CleanupNone \/ CleanupAgain

SpecBridge == InitBridge /\ [][NextBridge]_vars

(***************************************************************************)
(* Claims about the bridge (checked under SpecBridge)                      *)
(***************************************************************************)
Events(e) == {i \in DOMAIN btrace : btrace[i].ev = e}

\* C10: to_native of the none singleton to Optional(T) executes neither T's
\* conversion nor T's cleanup and yields the absent value with a clear error
\* flag; of any other object it executes T's conversion, reports T's error
\* flag, and its cleanup runs T's cleanup.
C10_OptionalBranchExclusive ==
    (btyp.kind = "optional" /\ bpc \in {"converted", "cleaned"}) =>
        LET T == btyp.elts[1]
            hasCleanup == T.kind \in {"record", "buffer"}
        IN  /\ bobj.kind = "none" =>
                  /\ btrace = <<>>
                  /\ ~bres.value.present
                  /\ ~bres.is_error
            /\ bobj.kind # "none" =>
                  /\ Len(btrace) >= 1
                  /\ btrace[1].ev = "convert" /\ btrace[1].kind = T.kind
                  /\ bres.is_error = btrace[1].err
                  /\ bres.value.present
                  /\ bres.cleanup.present = hasCleanup
                  /\ bpc = "converted" => Events("cleanup") = {}
                  /\ (bpc = "cleaned" /\ hasCleanup) =>
                        /\ Cardinality(Events("cleanup")) = 1
                        /\ btrace[Len(btrace)] = Cleaned(T.kind)

C10_Witness ==
    /\ bpc = "cleaned" /\ btyp = Optional([kind |-> "record", elts |-> <<>>])
    /\ bobj.kind = "none" /\ bres.cleanup.present /\ btrace = <<>>

\* the conversions that set their error flag
ErrorEvents == {i \in Events("convert") : btrace[i].err}

\* C11: the error flag of a tuple conversion is set exactly when the error
\* flag of at least one of its element conversions is set.
C11_TupleErrorIsOr ==
    (btyp.kind = "tuple" /\ bpc # "start") =>
        (bres.is_error <=> ErrorEvents # {})

C11_Witness ==
    /\ bpc = "converted" /\ btyp.kind = "tuple" /\ Len(btyp.elts) = 3
    /\ \A i \in 1..3 : btrace[i].ev = "convert"
    /\ ~btrace[1].err /\ btrace[2].err /\ ~btrace[3].err
    /\ bres.is_error

\* C12: a composite conversion (tuple, optional) never reads the native value
\* of a child conversion whose error flag is set to build its own value.
C12_FailedValueNeverUsed ==
    \A i \in Events("use") : ~btrace[i].err

\* the conversion of a value of type T returns a cleanup
HasCleanup(T) ==
    \/ T.kind \in {"record", "buffer"}
    \/ T.kind = "optional" /\ T.elts[1].kind \in {"record", "buffer"}

\* the releases expected of elements i, i-1, .. 1 of the tuple in bobj, btyp
RECURSIVE ExpectedCleanups(_)
ExpectedCleanups(i) ==
    IF i = 0
    THEN <<>>
    ELSE LET T == btyp.elts[i]
         IN  (CASE T.kind \in {"record", "buffer"} -> <<Cleaned(T.kind)>>
                [] T.kind = "optional" /\ HasCleanup(T)
                       /\ bobj.items[i].kind # "none" -> <<Cleaned(T.elts[1].kind)>>
                [] OTHER -> <<>>)
                 \o ExpectedCleanups(i - 1)

IsCleanupEvent(e) == e.ev = "cleanup"

\* C13: the cleanup of a tuple conversion, invoked once, runs the cleanup of
\* every element that has one exactly once, last converted element first,
\* whatever the error flag; the tuple has no cleanup exactly when no element
\* has one.
C13_TupleCleanupReversed ==
    (btyp.kind = "tuple" /\ bpc \in {"converted", "cleaned"}) =>
        /\ bres.cleanup.present <=> \E i \in DOMAIN btyp.elts : HasCleanup(btyp.elts[i])
        /\ bpc = "cleaned" =>
              SelectSeq(btrace, IsCleanupEvent) = ExpectedCleanups(Len(btyp.elts))

C13_Witness ==
    /\ bpc = "cleaned" /\ btyp.kind = "tuple" /\ Len(btyp.elts) = 3
    /\ btyp.elts[1].kind = "record" /\ btyp.elts[2].kind = "int"
    /\ btyp.elts[3].kind = "buffer"
    /\ bres.is_error
    /\ SelectSeq(btrace, IsCleanupEvent) = <<Cleaned("buffer"), Cleaned("record")>>

\* C14: for every conversion that returns a cleanup, on the success path and
\* on the error path alike, no buffer view is outstanding once the conversion
\* and then its cleanup have run.
C14_NoViewOutstanding ==
    (bpc = "cleaned" /\ bres.cleanup.present) =>
        /\ bufs = 0
        /\ \A i \in DOMAIN held : ~held[i]

C14_Witness ==
    /\ bpc = "cleaned" /\ bres.cleanup.present /\ bres.is_error
    /\ \E i \in DOMAIN bres.cleanup.acts :
           bres.cleanup.acts[i].enabled /\ bres.cleanup.acts[i].acquired
    /\ \E i \in DOMAIN bres.cleanup.acts :
           bres.cleanup.acts[i].enabled /\ ~bres.cleanup.acts[i].acquired
    /\ bufs = 0

RType(kind, elts, bits, signed) == [kind |-> kind, elts |-> elts, bits |-> bits, signed |-> signed]
IntType(bits, signed) == RType("int", <<>>, bits, signed)
KindType(kind) == RType(kind, <<>>, 0, FALSE)
ROptional(T) == RType("optional", <<T>>, 0, FALSE)
RTuple(elts) == RType("tuple", elts, 0, FALSE)

IntBits == {2, LongBits, LongLongBits}
IntTypes == {IntType(b, sg) : b \in IntBits, sg \in BOOLEAN}

\* the kinds the two dispatch chains test for; "extfunc_noptr" is an
\* ExternalFunctionPointer whose get_pointer is None, "other" any other type
ToNativeKinds ==
    {"pyobject", "boolean", "int", "float32", "float64", "complex128",
     "complex64", "npdatetime", "nptimedelta", "record", "array", "buffer",
     "optional", "tuple", "generator", "extfunc"}
FromNativeKinds ==
    {"pyobject", "boolean", "int", "float32", "float64", "complex128",
     "complex64", "npdatetime", "nptimedelta", "none", "optional", "array",
     "record", "tuple", "generator", "charseq"}
PlainKinds ==
    (ToNativeKinds \cup FromNativeKinds \cup {"extfunc_noptr", "other"})
        \ {"int", "optional", "tuple"}

\* to_native_value / from_native_value reach a branch for the type and for
\* every type they recurse into, or raise NotImplementedError
RECURSIVE ToNativeImplemented(_)
ToNativeImplemented(T) ==
    /\ T.kind \in ToNativeKinds
    /\ \A i \in DOMAIN T.elts : ToNativeImplemented(T.elts[i])

RECURSIVE FromNativeImplemented(_)
FromNativeImplemented(T) ==
    /\ T.kind \in FromNativeKinds
    /\ \A i \in DOMAIN T.elts : FromNativeImplemented(T.elts[i])

\* _long_from_native_int: the Python integer built from the long long ival
LongFromNativeInt(ival, signed, py2) ==
    LET use_pyint ==
            IF signed
            THEN /\ Signed(ival, LongLongBits) >= long_min       \* ICMP_SGE
                 /\ Signed(ival, LongLongBits) <= long_max       \* ICMP_SLE
            ELSE ival <= long_max                                \* ICMP_ULE
    IN  IF py2 /\ use_pyint
        THEN Signed(Trunc(ival, LongBits), LongBits)             \* PyInt_FromLong
        ELSE IF signed
        THEN Signed(ival, LongLongBits)                   \* PyLong_FromLongLong
        ELSE ival                                 \* PyLong_FromUnsignedLongLong

\* from_native_value for the integer types
FromNativeInt(v, T, py2) ==
    IF T.signed
    THEN LongFromNativeInt(SExt(v, T.bits, LongLongBits), TRUE, py2)
    ELSE LongFromNativeInt(ZExt(v, T.bits, LongLongBits), FALSE, py2)

\* from_native_value: the boxed object. Only integers carry a payload the
\* model follows; an object of another kind stands for any object of the kind
RECURSIVE FromNativeObj(_, _, _)
FromNativeObj(val, T, py2) ==
    CASE T.kind = "optional" -> FromNativeObj(val, T.elts[1], py2)
      [] T.kind = "int" -> [kind |-> "int", val |-> FromNativeInt(val.v, T, py2)]
      [] T.kind = "none" -> [kind |-> "none", val |-> 0]            \* make_none
      [] OTHER -> [kind |-> T.kind, val |-> 0]

\* from_native_array: the parent of the array, after incref
FromNativeArrayBorrowed == [origin |-> "parent", incref |-> 0]

FromNativeArray == [origin |-> "parent", incref |-> 1]

\* from_native_value: where the returned handle comes from ("created" by the
\* call, "received" as val, the "parent" of val, the "none" singleton) and
\* the references from_native_value added to it
RECURSIVE FromNativeRef(_)
FromNativeRef(T) ==
    CASE T.kind = "pyobject" -> [origin |-> "received", incref |-> 0]
      [] T.kind = "none" -> [origin |-> "none", incref |-> 1]
      [] T.kind = "optional" -> FromNativeRef(T.elts[1])
      [] T.kind = "array" -> FromNativeArray
      [] OTHER -> [origin |-> "created", incref |-> 0]

\* to_native_value in a round trip: integers and optionals of integers are
\* converted; for the other kinds only the dispatch is followed
ToNativeRound(obj, T) ==
    IF T.kind = "int" \/ (T.kind = "optional" /\ T.elts[1].kind = "int")
    THEN LET r == ToNativeValue(obj, T, TRUE, FALSE)
         IN  [value |-> r.value, is_error |-> r.is_error, cleanup |-> r.cleanup]
    ELSE [value |-> [present |-> TRUE, kind |-> T.kind, v |-> 0, defined |-> TRUE],
          is_error |-> FALSE, cleanup |-> NoCleanup]

NativeInt(v) == [present |-> TRUE, kind |-> "int", v |-> v, defined |-> TRUE]
NativeInts(T) == {NativeInt(v) : v \in 0..(Pow2(T.bits) - 1)}
RoundObjs == {[kind |-> "none", val |-> 0]} \cup {[kind |-> "int", val |-> x] : x \in {-1, 0, 1}}

InitRound ==
    /\ IdleLate
    /\ IdleView
    /\ IdleBroadcast
    /\ IdleBridge
    /\ IdleSerialize
    /\ rpc = "start"
    /\ rpy2 \in BOOLEAN
    /\ \/ /\ rdir = "nbn"
          /\ \/ rtyp \in IntTypes /\ rin \in NativeInts(rtyp)
             \/ /\ rtyp \in {ROptional(T) : T \in IntTypes}
                /\ rin \in NativeInts(rtyp.elts[1])
                             \cup {OptionalValue(FALSE, NativeInt(0), "int")}
             \/ /\ rtyp \in {KindType(k) : k \in PlainKinds}
                             \cup {ROptional(KindType("pyobject")),
                                   RTuple(<<IntType(2, TRUE), KindType("pyobject")>>),
                                   RTuple(<<KindType("buffer")>>)}
                /\ rin = [present |-> TRUE, kind |-> rtyp.kind, v |-> 0, defined |-> TRUE]
       \/ /\ rdir = "bnb"
          /\ \/ rtyp \in {ROptional(T) : T \in IntTypes} /\ rin \in RoundObjs
             \/ /\ rtyp \in {KindType(k) : k \in PlainKinds}
                             \cup {RTuple(<<KindType("charseq")>>)}
                /\ rin = [kind |-> rtyp.kind, val |-> 0]
    /\ robj = NoObject
    /\ rnat = NoResult
    /\ rret = NoRef

\* from_native_value(val, rtyp), on the input or on what to_native_value gave
FromNativeCall ==
    /\ (rdir = "nbn" /\ rpc = "start") \/ (rdir = "bnb" /\ rpc = "half")
    /\ LET val == IF rdir = "nbn" THEN rin ELSE rnat.value
       IN  IF FromNativeImplemented(rtyp)
           THEN /\ robj' = FromNativeObj(val, rtyp, rpy2)
                /\ rret' = FromNativeRef(rtyp)
                /\ rpc' = IF rdir = "nbn" THEN "half" ELSE "done"
           ELSE /\ rpc' = "raised_from"                  \* NotImplementedError
                /\ UNCHANGED <<robj, rret>>
    /\ UNCHANGED <<rdir, rtyp, rpy2, rin, rnat, viewVars, bcastVars, bridgeVars, serVars, lateVars>>

\* to_native_value(obj, rtyp), on the input or on what from_native_value gave
ToNativeRoundCall ==
    /\ (rdir = "bnb" /\ rpc = "start") \/ (rdir = "nbn" /\ rpc = "half")
    /\ LET obj == IF rdir = "bnb" THEN rin ELSE robj
       IN  IF ToNativeImplemented(rtyp)
           THEN /\ rnat' = ToNativeRound(obj, rtyp)
                /\ rpc' = IF rdir = "bnb" THEN "half" ELSE "done"
           ELSE /\ rpc' = "raised_to"                    \* NotImplementedError
                /\ UNCHANGED rnat
    /\ UNCHANGED <<rdir, rtyp, rpy2, rin, robj, rret, viewVars, bcastVars, bridgeVars, serVars, lateVars>>

NextRound == FromNativeCall \/ ToNativeRoundCall

SpecRound == InitRound /\ [][NextRound]_vars

(***************************************************************************)
(* Claims about from_native_value and round trips (checked under SpecRound)*)
(***************************************************************************)
\* from_native_value has returned a handle
FromReturned ==
    \/ rdir = "nbn" /\ rpc \in {"half", "done", "raised_to"}
    \/ rdir = "bnb" /\ rpc = "done"

\* C16: for every signed or unsigned integer type of width W up to the width
\* of long long and every W-bit value v, from_native builds the Python integer
\* that is the signed (sign-extended) or unsigned (zero-extended) reading of
\* v, and to_native of that integer returns v bit for bit with a clear error
\* flag.
C16_IntRoundTrip ==
    (rdir = "nbn" /\ rtyp.kind = "int") =>
        /\ rpc \notin {"raised_from", "raised_to"}
        /\ rpc \in {"half", "done"} =>
              robj = [kind |-> "int",
                      val |-> IF rtyp.signed THEN Signed(rin.v, rtyp.bits) ELSE rin.v]
        /\ rpc = "done" => (rnat.value = rin /\ ~rnat.is_error)

C16_Witness ==
    /\ rdir = "nbn" /\ rpc = "done" /\ rpy2
    /\ rtyp = IntType(LongLongBits, TRUE)
    /\ rin.v = Pow2(LongLongBits - 1)
    /\ robj.val = -Pow2(LongLongBits - 1)
    /\ rnat.value = rin /\ ~rnat.is_error

\* C17: a type for which one of to_native, from_native has a conversion has
\* one in the other direction too: after one direction converted a value of
\* the type, the other direction does not raise NotImplementedError for it.
C17_DispatchSymmetric ==
    /\ ~(rdir = "nbn" /\ rpc = "raised_to")
    /\ ~(rdir = "bnb" /\ rpc = "raised_from")

\* C18: from_native for Optional(T) unwraps the optional: a present value
\* gives T's from_native of the payload, the absent value gives the none
\* singleton, and from_native(to_native(none, Optional(T)), Optional(T)) is
\* none.
C18_OptionalUnwrapped ==
    rtyp.kind = "optional" =>
        /\ (rdir = "nbn" /\ rpc \in {"half", "done"}) =>
              IF rin.present
              THEN robj = FromNativeObj(rin, rtyp.elts[1], rpy2)
              ELSE robj.kind = "none"
        /\ (rdir = "bnb" /\ rpc = "done" /\ rin.kind = "none") =>
              robj.kind = "none"

\* the kind whose branch of from_native_value returns the handle
RECURSIVE BaseKind(_)
BaseKind(T) == IF T.kind = "optional" THEN BaseKind(T.elts[1]) ELSE T.kind

\* C19 as stated: for every supported kind from_native returns a newly
\* created object or an existing object it added exactly one reference to.
C19_NewOwnedReference ==
    FromReturned => (rret.origin = "created" \/ rret.incref = 1)

\* C19 (amended): for every supported kind other than pyobject, from_native
\* returns a newly created object or an existing object it added exactly one
\* reference to, and never the handle it received; for pyobject (also under
\* Optional) it returns the handle it received and adds no reference.
C19_NewOwnedUnlessPyobject ==
    FromReturned =>
        IF BaseKind(rtyp) = "pyobject"
        THEN rret = [origin |-> "received", incref |-> 0]
        ELSE /\ rret.origin # "received"
             /\ rret.origin = "created" \/ rret.incref = 1

C19_Witness ==
    /\ FromReturned /\ rtyp.kind = "array"
    /\ rret = [origin |-> "parent", incref |-> 1]


(***************************************************************************)
(* Serialization cache of a module: PythonAPI.__init__, serialize_object   *)
(***************************************************************************)
\* a constant of the module: the prefix of its name and the id(obj) in it
PickleData(obj) == [name |-> ".const.pickledata", id |-> obj.id]
PickleBuf(obj) == [name |-> ".const.picklebuf", id |-> obj.id]

\* context.insert_unique_const(module, name, val): the constant is inserted
\* and returned; a constant already there under the name may be returned
\* instead. The outcomes: the constants of the module and the index returned
InsertUniqueConst(cs, c) ==
    {[consts |-> Append(cs, c), gv |-> Len(cs) + 1]}
        \cup {[consts |-> cs, gv |-> i] : i \in {j \in DOMAIN cs : cs[j] = c}}

\* PythonAPI.__init__: module.__serialized after the try / except
SerializedOnInitReset(has, cache) == [k \in SerKeys |-> NoConst]

SerializedOnInit(has, cache) ==
    IF has THEN cache ELSE [k \in SerKeys |-> NoConst]          \* AttributeError

InitSerialize ==
    /\ IdleLate
    /\ IdleView
    /\ IdleBroadcast
    /\ IdleBridge
    /\ IdleRound
    /\ has_serialized = FALSE
    /\ serialized = [k \in SerKeys |-> NoConst]
    /\ consts = <<>>
    /\ napi = 0
    /\ ncall = 0
    /\ first_ser = [i \in SerIds |-> NotSerialized]
    /\ last = NoSerCall

\* PythonAPI(context, builder) on a builder of the module
NewPythonAPI ==
    /\ napi < MaxApis
    /\ serialized' = SerializedOnInit(has_serialized, serialized)
    /\ has_serialized' = TRUE
    /\ napi' = napi + 1
    /\ UNCHANGED <<consts, ncall, first_ser, last, viewVars, bcastVars, bridgeVars, roundVars, lateVars>>

\* what a serialize_object(obj) call that returns gv and leaves the constants
\* cs records in first_ser and last
Recorded(obj, gv, cs) ==
    /\ last' = [id |-> obj.id, gv |-> gv, added |-> Len(cs) - Len(consts),
                again |-> first_ser[obj.id] # NotSerialized, api |-> napi]
    /\ first_ser' = IF first_ser[obj.id] = NotSerialized
                    THEN [first_ser EXCEPT ![obj.id] = [gv |-> gv, api |-> napi]]
                    ELSE first_ser
    /\ consts' = cs

\* serialize_object(obj) finds the key in module.__serialized
SerializeHit ==
    /\ napi >= 1 /\ ncall < MaxCalls
    /\ \E obj \in SerObjs :
          /\ serialized[obj.key] # NoConst
          /\ Recorded(obj, serialized[obj.key], consts)
    /\ ncall' = ncall + 1
    /\ UNCHANGED <<has_serialized, serialized, napi, viewVars, bcastVars, bridgeVars, roundVars, lateVars>>

\* serialize_object(obj) gets KeyError: it pickles obj, inserts the byte
\* array and the structure constant, and stores the latter under the key
SerializeMiss ==
    /\ napi >= 1 /\ ncall < MaxCalls
    /\ \E obj \in SerObjs :
          /\ serialized[obj.key] = NoConst
          /\ \E arr \in InsertUniqueConst(consts, PickleData(obj)) :
                \E gv \in InsertUniqueConst(arr.consts, PickleBuf(obj)) :
                    /\ serialized' = [serialized EXCEPT ![obj.key] = gv.gv]
                    /\ Recorded(obj, gv.gv, gv.consts)
    /\ ncall' = ncall + 1
    /\ UNCHANGED <<has_serialized, napi, viewVars, bcastVars, bridgeVars, roundVars, lateVars>>

NextSerialize == NewPythonAPI \/ SerializeHit \/ SerializeMiss

SpecSerialize == InitSerialize /\ [][NextSerialize]_vars

(***************************************************************************)
(* Claims about the serialization cache (checked under SpecSerialize)      *)
(***************************************************************************)
\* C20: over any sequence of serialize_object calls and PythonAPI
\* constructions on one module, serializing an object that was serialized
\* before returns the constant its first serialization returned and adds no
\* constant to the module; the module holds at most one structure constant
\* per object.
C20_SerializedOnce ==
    /\ last.again => (last.gv = first_ser[last.id].gv /\ last.added = 0)
    /\ \A o \in SerObjs :
          Cardinality({j \in DOMAIN consts : consts[j] = PickleBuf(o)}) <= 1

C20_Witness ==
    /\ last.again /\ last.api > first_ser[last.id].api
    /\ last.gv = first_ser[last.id].gv /\ last.added = 0

\* C21: the serialization cache is keyed by object identity: the constant a
\* serialize_object(b) call returns was created for b itself (it carries
\* id(b) in its name), never for a different object a, also when a = b holds
C21_KeyedByIdentity ==
    last.id # 0 => consts[last.gv] = [name |-> ".const.picklebuf", id |-> last.id]

\* C24: when slice_axis returns new_extent > 0 for an axis of extent > 0, the
\* first selected index (the normalized start) and the last selected index
\* start + (new_extent - 1) * step both lie in 0 .. extent - 1
C24_SelectedIndicesInBounds ==
    (fn = "slice" /\ call.new_extent > 0 /\ call.extent0 > 0) =>
        /\ call.nstart \in 0..(call.extent0 - 1)
        /\ call.nstart + (call.new_extent - 1) * call.nstep \in 0..(call.extent0 - 1)

\* C25: slice_axis writes only out_shape[dst_dim] and out_strides[dst_dim]:
\* after the call the source view's shape and strides hold the values they
\* had on entry, also when the resulting extent is 1
C25_SourceViewUnchanged ==
    fn = "slice" =>
        /\ in_shape[call.src_dim] = call.extent0
        /\ in_strides[call.src_dim] = call.stride0

(***************************************************************************)
(* Claims about the error flag of scalar conversions (SpecBridge)          *)
(***************************************************************************)
\* a runtime call of the conversion of obj to the leaf type typ itself fails
OwnCallFailed(obj, typ) ==
    \/ ~Convertible(obj, typ.kind)
    \/ /\ typ.kind = "int"
       /\ ToNativeInt(obj.val, TypeBits(typ), TypeSigned(typ)).failed

\* tuple types whose elements are converted by one leaf conversion each, so
\* that event i of the trace is the conversion of element i
LeafTuple(typ) ==
    typ.kind = "tuple" /\ \A i \in DOMAIN typ.elts : typ.elts[i].kind # "optional"

\* C29 as stated: the error flag of an integer conversion is set iff one of
\* its own runtime calls failed, whatever error was pending when it started
C29_FlagIffOwnCallFailed ==
    bpc = "converted" =>
        /\ btyp.kind = "int" => (bres.is_error <=> OwnCallFailed(bobj, btyp))
        /\ LeafTuple(btyp) =>
              \A i \in DOMAIN btyp.elts :
                  btyp.elts[i].kind = "int" =>
                      (btrace[i].err <=> OwnCallFailed(bobj.items[i], btyp.elts[i]))

\* C29: the error flag of an integer conversion is the error indicator after
\* its runtime calls: it is set iff one of its own calls failed or an error
\* was pending when it started (on entry of to_native, or left by a failing
\* earlier element of the same tuple)
C29_FlagIsErrorIndicatorAfterCalls ==
    [][(bpc = "start" /\ bpc' = "converted") =>
        /\ btyp.kind = "int" =>
              (bres'.is_error <=> (perr \/ OwnCallFailed(bobj, btyp)))
        /\ LeafTuple(btyp) =>
              \A i \in DOMAIN btyp.elts :
                  btyp.elts[i].kind = "int" =>
                      (btrace'[i].err <=>
                          \/ perr
                          \/ \E j \in 1..i :
                                OwnCallFailed(bobj.items[j], btyp.elts[j]))]_vars

C29_Witness ==
    /\ bpc = "converted" /\ LeafTuple(btyp) /\ Len(btyp.elts) = 2
    /\ btyp.elts[1].kind = "record" /\ OwnCallFailed(bobj.items[1], btyp.elts[1])
    /\ btyp.elts[2].kind = "int" /\ ~OwnCallFailed(bobj.items[2], btyp.elts[2])
    /\ btrace[1].err /\ btrace[2].kind = "int" /\ btrace[2].err

(***************************************************************************)
(* SpecRefs: the references to_native_value creates and releases           *)
(***************************************************************************)
MaxRefElems == 2                \* a tuple has at most MaxRefElems elements

\* the kinds of to_native_value that create temporary objects
RefKinds == {"int", "float32", "float64", "extfunc"}

\* the outcomes of the runtime calls of one conversion, in program order:
\* 'a' the call creating the first temporary (number_long, number_float,
\* unserialize), 'b' the call on it (long_as_longlong / long_as_ulonglong,
\* float_as_double, call_function_objargs), 'c' long_as_voidptr on the
\* callback's result. A call on a missing object does not succeed.
Outcomes(kind) ==
    {o \in [a : BOOLEAN, b : BOOLEAN, c : BOOLEAN] :
        /\ o.b => o.a
        /\ o.c => (o.b /\ kind = "extfunc")}

RefElems == UNION {[kind : {k}, out : Outcomes(k)] : k \in RefKinds}

\* events of refs.trace: a runtime call returned a new reference to the
\* temporary tmp of element elem; Py_DecRef released one
NewRef(tmp, elem) == [ev |-> "new", tmp |-> tmp, elem |-> elem]
Released(tmp, elem) == [ev |-> "decref", tmp |-> tmp, elem |-> elem]

\* what a runtime call that returns a new reference, or NULL, leaves
Created(ok, tmp, elem) == IF ok THEN <<NewRef(tmp, elem)>> ELSE <<>>

\* decref(obj): Py_DecRef ignores a NULL pointer
Decref(not_null, tmp, elem) == IF not_null THEN <<Released(tmp, elem)>> ELSE <<>>

\* to_native_int: the decref is emitted inside 'with if_object_ok(longobj)',
\* after long_as_longlong / long_as_ulonglong whatever their outcome
ToNativeIntRefsLeakOnError(o, elem) ==
    Created(o.a, "longobj", elem)
        \o (IF o.a /\ o.b THEN Decref(o.a, "longobj", elem) ELSE <<>>)

ToNativeIntRefs(o, elem) ==
    Created(o.a, "longobj", elem)
        \o (IF o.a THEN Decref(o.a, "longobj", elem) ELSE <<>>)

\* the float32 and float64 branches: number_float, float_as_double and an
\* unconditional decref(fobj)
ToNativeFloatRefs(o, elem) ==
    Created(o.a, "fobj", elem) \o Decref(o.a, "fobj", elem)

\* the ExternalFunctionPointer branch with a get_pointer callback
ToNativeExtFuncRefs(o, elem) ==
    Created(o.a, "get_pointer", elem)
        \o (IF o.a                                  \* is_not_null(get_pointer)
            THEN Created(o.b, "intobj", elem)       \* call_function_objargs
                   \o Decref(o.a, "get_pointer", elem)
                   \o (IF o.b                       \* is_not_null(intobj)
                       THEN Decref(o.b, "intobj", elem)
                       ELSE <<>>)
            ELSE <<>>)

\* to_native_value on an element plan [kind, out]
ToNativeValueRefs(el, elem) ==
    CASE el.kind = "int" -> ToNativeIntRefs(el.out, elem)
      [] el.kind \in {"float32", "float64"} -> ToNativeFloatRefs(el.out, elem)
      [] el.kind = "extfunc" -> ToNativeExtFuncRefs(el.out, elem)

\* to_native_tuple: tuple_getitem borrows element i, to_native_value
\* converts it; elements i.. in order
RECURSIVE ToNativeTupleRefs(_, _)
ToNativeTupleRefs(elems, i) ==
    IF i > Len(elems)
    THEN <<>>
    ELSE ToNativeValueRefs(elems[i], i) \o ToNativeTupleRefs(elems, i + 1)

InitRefs ==
    /\ IdleView
    /\ IdleBroadcast
    /\ IdleBridge
    /\ IdleRound
    /\ IdleSerialize
    /\ IdleCharSeq /\ IdleRewrite /\ IdleGil
    /\ \/ \E el \in RefElems :
             refs = [pc |-> "start", tuple |-> FALSE, elems |-> <<el>>, trace |-> <<>>]
       \/ \E n \in 0..MaxRefElems : \E els \in [1..n -> RefElems] :
             refs = [pc |-> "start", tuple |-> TRUE, elems |-> els, trace |-> <<>>]

\* to_native_value(obj, typ) on a scalar or pointer type
ToNativeRefsLeaf ==
    /\ refs.pc = "start" /\ ~refs.tuple
    /\ refs' = [refs EXCEPT !.pc = "done",
                            !.trace = ToNativeValueRefs(refs.elems[1], 1)]
    /\ UNCHANGED <<viewVars, bcastVars, bridgeVars, roundVars, serVars, chseq, rw, gil>>

\* to_native_value(obj, typ) on a tuple type
ToNativeRefsTuple ==
    /\ refs.pc = "start" /\ refs.tuple
    /\ refs' = [refs EXCEPT !.pc = "done",
                            !.trace = ToNativeTupleRefs(refs.elems, 1)]
    /\ UNCHANGED <<viewVars, bcastVars, bridgeVars, roundVars, serVars, chseq, rw, gil>>

NextRefs == ToNativeRefsLeaf \/ ToNativeRefsTuple

SpecRefs == InitRefs /\ [][NextRefs]_vars

\* the temporaries a conversion of the kind can create
TempsOf(kind) ==
    CASE kind = "int" -> {"longobj"}
      [] kind \in {"float32", "float64"} -> {"fobj"}
      [] kind = "extfunc" -> {"get_pointer", "intobj"}

\* the runtime call that creates the temporary succeeded
WasCreated(el, tmp) == IF tmp = "intobj" THEN el.out.a /\ el.out.b ELSE el.out.a

RefEvents(e) == {i \in DOMAIN refs.trace : refs.trace[i] = e}

\* C28: to_native has no net effect on reference counts: every temporary
\* (coerced integer, coerced float, deserialized callback, callback result)
\* is released exactly once, after its creation, if it was created and not
\* at all if its creation failed, whatever the outcome of each runtime call;
\* nothing else (the input object, a borrowed tuple element) is released.
C28_TemporariesReleasedOnce ==
    refs.pc = "done" =>
        /\ \A i \in DOMAIN refs.elems : \A tmp \in TempsOf(refs.elems[i].kind) :
              LET news == RefEvents(NewRef(tmp, i))
                  rels == RefEvents(Released(tmp, i))
              IN  /\ Cardinality(news) = (IF WasCreated(refs.elems[i], tmp) THEN 1 ELSE 0)
                  /\ Cardinality(rels) = Cardinality(news)
                  /\ \A n \in news : \A r \in rels : n < r
        /\ \A j \in DOMAIN refs.trace :
              /\ refs.trace[j].elem \in DOMAIN refs.elems
              /\ refs.trace[j].tmp \in TempsOf(refs.elems[refs.trace[j].elem].kind)

C28_Witness ==
    /\ refs.pc = "done" /\ refs.tuple /\ Len(refs.elems) = 2
    /\ refs.elems[1].kind = "extfunc"
    /\ refs.elems[1].out.a /\ ~refs.elems[1].out.b
    /\ refs.elems[2].kind = "int"
    /\ refs.elems[2].out.a /\ ~refs.elems[2].out.b
    /\ refs.trace = <<NewRef("get_pointer", 1), Released("get_pointer", 1),
                      NewRef("longobj", 2), Released("longobj", 2)>>

(***************************************************************************)
(* SpecCharSeq: from_native_charseq                                        *)
(***************************************************************************)
MaxCount == 3                   \* typ.count is at most MaxCount
ByteVals == {0, 65, 66}         \* the bytes of a character sequence

\* the native values of a CharSeq type of capacity n: n bytes
CharSeqVals(n) == [1..n -> ByteVals]

InitCharSeq ==
    /\ IdleView
    /\ IdleBroadcast
    /\ IdleBridge
    /\ IdleRound
    /\ IdleSerialize
    /\ IdleRefs /\ IdleRewrite /\ IdleGil
    /\ \E n \in 0..MaxCount : \E v \in CharSeqVals(n) :
          chseq = [pc |-> "loop", val |-> v, fullsize |-> n, idx |-> 0,
                   count |-> 0, loads |-> 0, result |-> <<>>]

\* one iteration of the loop over idx: load the char, store idx as count,
\* leave the loop for end.string.count when the char is a null byte
LoopBodyStoreAfterTest(c) ==
    LET ch == c.val[c.idx + 1]
    IN  IF ch = 0
        THEN [c EXCEPT !.loads = @ + 1, !.pc = "end"]
        ELSE [c EXCEPT !.loads = @ + 1, !.count = c.idx, !.idx = @ + 1]

LoopBody(c) ==
    LET ch == c.val[c.idx + 1]                     \* load(gep(strptr, [idx]))
    IN  IF ch = 0
        THEN [c EXCEPT !.loads = @ + 1, !.count = c.idx, !.pc = "end"]
        ELSE [c EXCEPT !.loads = @ + 1, !.count = c.idx, !.idx = @ + 1]

CharSeqLoop ==
    /\ chseq.pc = "loop" /\ chseq.idx < chseq.fullsize
    /\ chseq' = LoopBody(chseq)
    /\ UNCHANGED <<viewVars, bcastVars, bridgeVars, roundVars, serVars, refs, rw, gil>>

\* the loop ends without a null byte: count is set to fullsize
CharSeqNoNull ==
    /\ chseq.pc = "loop" /\ chseq.idx >= chseq.fullsize
    /\ chseq' = [chseq EXCEPT !.count = chseq.fullsize, !.pc = "end"]
    /\ UNCHANGED <<viewVars, bcastVars, bridgeVars, roundVars, serVars, refs, rw, gil>>

\* end.string.count: bytes_from_string_and_size(strptr, load(count))
CharSeqEnd ==
    /\ chseq.pc = "end"
    /\ chseq' = [chseq EXCEPT !.result = SubSeq(chseq.val, 1, chseq.count),
                              !.pc = "done"]
    /\ UNCHANGED <<viewVars, bcastVars, bridgeVars, roundVars, serVars, refs, rw, gil>>

NextCharSeq == CharSeqLoop \/ CharSeqNoNull \/ CharSeqEnd

SpecCharSeq == InitCharSeq /\ [][NextCharSeq]_vars

\* the positions of the null bytes of v, counted from 0
NullsAt(v) == {i \in 0..(Len(v) - 1) : v[i + 1] = 0}

\* C30: the bytes object from_native_charseq builds has the length of the
\* index of the first null byte among the count bytes, or count when none is
\* null; the length never exceeds count, and the scan stops after reading at
\* most count bytes.
C30_LengthIsFirstNull ==
    /\ chseq.pc # "idle" => chseq.loads <= chseq.fullsize
    /\ chseq.pc = "done" =>
          /\ Len(chseq.result) <= chseq.fullsize
          /\ NullsAt(chseq.val) = {} => Len(chseq.result) = chseq.fullsize
          /\ NullsAt(chseq.val) # {} =>
                /\ Len(chseq.result) \in NullsAt(chseq.val)
                /\ \A i \in NullsAt(chseq.val) : Len(chseq.result) <= i
          /\ chseq.result = SubSeq(chseq.val, 1, Len(chseq.result))

C30_Witness ==
    /\ chseq.pc = "done" /\ chseq.fullsize = 3
    /\ chseq.val = <<65, 0, 66>> /\ chseq.result = <<65>> /\ chseq.loads = 2

(***************************************************************************)
(* SpecRewrite: rewrite_slice and the visit of the NativeSliceNode         *)
(***************************************************************************)
MaxSrcNdim == 2                 \* the source array has at most MaxSrcNdim axes
MaxNewaxes == 1                 \* a subscript list has at most MaxNewaxes newaxes

SubsliceKinds == {"slice", "int", "newaxis"}

\* the number of entries of dims whose kind is in kinds
NumOf(dims, kinds) == Cardinality({p \in DOMAIN dims : dims[p] \in kinds})

\* the subscript lists on a source array of n axes: at least one entry, as
\* many slices and integer indices as there are axes, or fewer
SubscriptLists(n) ==
    UNION {{d \in [1..len -> SubsliceKinds] :
               /\ NumOf(d, {"slice", "int"}) <= n
               /\ NumOf(d, {"newaxis"}) <= MaxNewaxes} :
           len \in 1..(n + MaxNewaxes)}

\* node.type.ndim, the dimensionality of the result of the subscript: every
\* integer index removes an axis of the source, every newaxis adds one
OutNdim(n, dims) == n - NumOf(dims, {"int"}) + NumOf(dims, {"newaxis"})

\* rewrite_slice: src_dim and dst_dim after the subslice of the given kind
AdvanceNewaxisStays(kind, src_dim, dst_dim) ==
    CASE kind = "slice" -> [src_dim |-> src_dim + 1, dst_dim |-> dst_dim + 1]
      [] kind = "newaxis" -> [src_dim |-> src_dim, dst_dim |-> dst_dim]
      [] kind = "int" -> [src_dim |-> src_dim + 1, dst_dim |-> dst_dim]

Advance(kind, src_dim, dst_dim) ==
    CASE kind = "slice" -> [src_dim |-> src_dim + 1, dst_dim |-> dst_dim + 1]
      [] kind = "newaxis" -> [src_dim |-> src_dim, dst_dim |-> dst_dim + 1]
      [] kind = "int" -> [src_dim |-> src_dim + 1, dst_dim |-> dst_dim]

\* rewrite_slice: the nodes create_slice_dim_node makes for dims[p..]
RECURSIVE RewriteDims(_, _, _, _)
RewriteDims(dims, p, src_dim, dst_dim) ==
    IF p > Len(dims)
    THEN <<>>
    ELSE LET next == Advance(dims[p], src_dim, dst_dim)
         IN  <<[kind |-> dims[p], src_dim |-> src_dim, dst_dim |-> dst_dim]>>
                 \o RewriteDims(dims, p + 1, next.src_dim, next.dst_dim)

InitRewrite ==
    /\ IdleView
    /\ IdleBroadcast
    /\ IdleBridge
    /\ IdleRound
    /\ IdleSerialize
    /\ IdleRefs /\ IdleCharSeq /\ IdleGil
    /\ \E n \in 0..MaxSrcNdim : \E d \in SubscriptLists(n) :
          rw = [pc |-> "start", n |-> n, dims |-> d, subslices |-> <<>>,
                visited |-> 0, wshape |-> <<>>, wstrides |-> <<>>, rsrc |-> <<>>]

\* rewrite_slice(node, nopython), then visit_NativeSliceNode up to the
\* allocation of shape and strides: nothing is written to them yet
RewriteSlice ==
    /\ rw.pc = "start"
    /\ rw' = [rw EXCEPT
                !.pc = "visit",
                !.subslices = RewriteDims(rw.dims, 1, 0, 0),
                !.wshape = [j \in 0..(OutNdim(rw.n, rw.dims) - 1) |-> 0],
                !.wstrides = [j \in 0..(OutNdim(rw.n, rw.dims) - 1) |-> 0],
                !.rsrc = [j \in 0..(rw.n - 1) |-> 0]]
    /\ UNCHANGED <<viewVars, bcastVars, bridgeVars, roundVars, serVars, refs, chseq, gil>>

\* the next node of visitlist(node.subslices)
NextSubslice == rw.subslices[rw.visited + 1]

\* the position of the visit after one more node
Visited(r) ==
    [r EXCEPT !.visited = @ + 1,
              !.pc = IF r.visited + 1 = Len(r.subslices) THEN "done" ELSE "visit"]

\* visit_SliceSliceNode: slice_func reads in_shape / in_strides at src_dim
\* and writes out_shape / out_strides at dst_dim
VisitSliceSliceNode ==
    /\ rw.pc = "visit" /\ NextSubslice.kind = "slice"
    /\ rw' = [Visited(rw) EXCEPT !.wshape[NextSubslice.dst_dim] = @ + 1,
                                 !.wstrides[NextSubslice.dst_dim] = @ + 1,
                                 !.rsrc[NextSubslice.src_dim] = @ + 1]
    /\ UNCHANGED <<viewVars, bcastVars, bridgeVars, roundVars, serVars, refs, chseq, gil>>

\* visit_SliceDimNode on an integer: index_func reads the source at src_dim
VisitSliceDimInt ==
    /\ rw.pc = "visit" /\ NextSubslice.kind = "int"
    /\ rw' = [Visited(rw) EXCEPT !.rsrc[NextSubslice.src_dim] = @ + 1]
    /\ UNCHANGED <<viewVars, bcastVars, bridgeVars, roundVars, serVars, refs, chseq, gil>>

\* visit_SliceDimNode on a newaxis: newaxis_func writes shape / strides at dst_dim
VisitSliceDimNewaxis ==
    /\ rw.pc = "visit" /\ NextSubslice.kind = "newaxis"
    /\ rw' = [Visited(rw) EXCEPT !.wshape[NextSubslice.dst_dim] = @ + 1,
                                 !.wstrides[NextSubslice.dst_dim] = @ + 1]
    /\ UNCHANGED <<viewVars, bcastVars, bridgeVars, roundVars, serVars, refs, chseq, gil>>

NextRewrite ==
    RewriteSlice \/ VisitSliceSliceNode \/ VisitSliceDimInt \/ VisitSliceDimNewaxis

SpecRewrite == InitRewrite /\ [][NextRewrite]_vars

\* the nodes before position p whose kind is in kinds
Before(p, kinds) == {q \in 1..(p - 1) : rw.subslices[q].kind \in kinds}

\* slice and newaxis entries get the destination axes 0, 1, ... in order,
\* slice and integer entries the source axes 0, 1, ... in order
AxesInOrder ==
    \A p \in DOMAIN rw.subslices :
        LET sub == rw.subslices[p]
        IN  /\ sub.kind \in {"slice", "newaxis"} =>
                  sub.dst_dim = Cardinality(Before(p, {"slice", "newaxis"}))
            /\ sub.kind \in {"slice", "int"} =>
                  sub.src_dim = Cardinality(Before(p, {"slice", "int"}))

\* every output axis has its shape and its stride written exactly once
EveryOutputAxisWrittenOnce ==
    \A j \in DOMAIN rw.wshape : rw.wshape[j] = 1 /\ rw.wstrides[j] = 1

\* C27 as stated: for s slices, k integer indices and a newaxes with
\* s + k <= n, every one of the n - k + a output axes is written exactly
\* once, destination and source axes being handed out in order.
C27_EveryAxisWrittenOnce ==
    rw.pc = "done" => (AxesInOrder /\ EveryOutputAxisWrittenOnce)

\* C27: for a subscript list that names every axis of the source
\* (s + k = n), every one of the n - k + a output axes is written exactly
\* once, destination and source axes being handed out in order and no
\* source axis consumed twice.
C27_CompleteListWritesEveryAxisOnce ==
    (rw.pc = "done" /\ NumOf(rw.dims, {"slice", "int"}) = rw.n) =>
        /\ AxesInOrder
        /\ EveryOutputAxisWrittenOnce
        /\ \A j \in DOMAIN rw.rsrc : rw.rsrc[j] = 1

C27_Witness ==
    /\ rw.pc = "done" /\ rw.n = 2 /\ rw.dims = <<"int", "newaxis", "slice">>
    /\ rw.subslices[2].dst_dim = 0 /\ rw.subslices[3].dst_dim = 1
    /\ rw.subslices[3].src_dim = 1
    /\ DOMAIN rw.wshape = 0..1 /\ EveryOutputAxisWrittenOnce

(***************************************************************************)
(* SpecGil: the interpreter lock seen by one thread of compiled code       *)
(***************************************************************************)
MaxGilOps == 6                  \* at most MaxGilOps lock operations are emitted

\* The runtime side of the four emitted calls (numba_gil_ensure,
\* numba_gil_release, PyEval_SaveThread, PyEval_RestoreThread): a thread that
\* holds the lock gives it up, a thread that does not hold it takes it, and
\* releasing an unheld lock or acquiring a held one is a fatal usage error.
LockAcquireReentrant(holds) == [held |-> TRUE, aborted |-> FALSE]

LockAcquire(holds) == [held |-> TRUE, aborted |-> holds]

LockRelease(holds) == [held |-> FALSE, aborted |-> ~holds]

InitGil ==
    /\ IdleView
    /\ IdleBroadcast
    /\ IdleBridge
    /\ IdleRound
    /\ IdleSerialize
    /\ IdleRefs /\ IdleCharSeq /\ IdleRewrite
    /\ \E h \in BOOLEAN :
          gil = [pc |-> "run", held |-> h, aborted |-> FALSE, trace |-> <<>>,
                 have_gil |-> FALSE, have_ts |-> FALSE]

\* the thread runs on after the call op with runtime outcome r, unless the
\* process was aborted
AfterLockOp(op, r) ==
    [gil EXCEPT !.held = r.held, !.aborted = r.aborted,
                !.trace = Append(@, op),
                !.pc = IF r.aborted THEN "aborted" ELSE "run"]

\* gil = gil_ensure(): the state slot is allocated and handed to the runtime
GilEnsure ==
    /\ gil.pc = "run" /\ Len(gil.trace) < MaxGilOps
    /\ gil' = [AfterLockOp("gil_ensure", LockAcquire(gil.held)) EXCEPT !.have_gil = TRUE]
    /\ UNCHANGED <<viewVars, bcastVars, bridgeVars, roundVars, serVars, refs, chseq, rw>>

\* gil_release(gil) on a value gil_ensure returned
GilRelease ==
    /\ gil.pc = "run" /\ Len(gil.trace) < MaxGilOps
    /\ gil.have_gil
    /\ gil' = AfterLockOp("gil_release", LockRelease(gil.held))
    /\ UNCHANGED <<viewVars, bcastVars, bridgeVars, roundVars, serVars, refs, chseq, rw>>

\* thread_state = save_thread()
SaveThread ==
    /\ gil.pc = "run" /\ Len(gil.trace) < MaxGilOps
    /\ gil' = [AfterLockOp("save_thread", LockRelease(gil.held)) EXCEPT !.have_ts = TRUE]
    /\ UNCHANGED <<viewVars, bcastVars, bridgeVars, roundVars, serVars, refs, chseq, rw>>

\* restore_thread(thread_state) on a value save_thread returned
RestoreThread ==
    /\ gil.pc = "run" /\ Len(gil.trace) < MaxGilOps
    /\ gil.have_ts
    /\ gil' = AfterLockOp("restore_thread", LockAcquire(gil.held))
    /\ UNCHANGED <<viewVars, bcastVars, bridgeVars, roundVars, serVars, refs, chseq, rw>>

NextGil == GilEnsure \/ GilRelease \/ SaveThread \/ RestoreThread

SpecGil == InitGil /\ [][NextGil]_vars

\* whether the operation acquires or releases the lock
LockKind(op) ==
    IF op \in {"gil_ensure", "restore_thread"} THEN "acquire" ELSE "release"

====
